---------------------------- MODULE Spec2Model ----------------------------
(***************************************************************************)
(* Model of the clock-synchronisation check of dcos-checks                 *)
(* (cmd/time_check.go): TimeCheck.Run calls the injected adjtimex          *)
(* function once, compares the kernel's estimated error with               *)
(* maxEstErrorUs, tests the STA_UNSYNC status bit and returns              *)
(* (message, status, error).                                               *)
(*                                                                         *)
(* Go's int64 is modelled at its full width: a value is a tuple of         *)
(* NumLimbs limbs in base Base (little endian, two's complement), and      *)
(* addition, subtraction and multiplication wrap modulo 2^64 exactly as    *)
(* the compiled code does.                                                 *)
(***************************************************************************)
EXTENDS Integers, Sequences, FiniteSets, TLC

(***************************************************************************)
(* 64-bit integers                                                         *)
(***************************************************************************)
Base == 2^8

NumLimbs == 64 \div 8

LimbIdx == 1..NumLimbs

Zero64 == [k \in LimbIdx |-> 0]

\* int64(n) for an integer n that fits 32 bits (sign extended).
I64(n) == [k \in LimbIdx |-> IF k <= 4 THEN (n \div Base^(k - 1)) % Base
                                       ELSE IF n < 0 THEN Base - 1 ELSE 0]

MaxInt64 == [k \in LimbIdx |-> IF k = NumLimbs THEN (Base \div 2) - 1 ELSE Base - 1]

MinInt64 == [k \in LimbIdx |-> IF k = NumLimbs THEN Base \div 2 ELSE 0]

MaxUint64 == [k \in LimbIdx |-> Base - 1]

\* a + b, wrapping modulo 2^64.
Add64(a, b) ==
    LET t[k \in LimbIdx] == a[k] + b[k] + (IF k = 1 THEN 0 ELSE t[k - 1] \div Base)
    IN  [k \in LimbIdx |-> t[k] % Base]

\* -a, wrapping modulo 2^64 (two's complement).
Neg64(a) == Add64([k \in LimbIdx |-> Base - 1 - a[k]], I64(1))

\* a - b, wrapping modulo 2^64.
Sub64(a, b) == Add64(a, Neg64(b))

\* a * b, wrapping modulo 2^64 (schoolbook product, low 64 bits).
Mul64(a, b) ==
    LET col[k \in LimbIdx, i \in 0..NumLimbs] ==
            IF i = 0 THEN 0
            ELSE col[k, i - 1] + (IF i <= k THEN a[i] * b[k - i + 1] ELSE 0)
        t[k \in LimbIdx] == col[k, NumLimbs] + (IF k = 1 THEN 0 ELSE t[k - 1] \div Base)
    IN  [k \in LimbIdx |-> t[k] % Base]

\* The sign bit of an int64.
IsNeg64(a) == a[NumLimbs] >= Base \div 2

\* a < b as unsigned 64-bit values.
RECURSIVE ULtFrom(_, _, _)
ULtFrom(a, b, k) ==
    IF k = 0 THEN FALSE
    ELSE IF a[k] # b[k] THEN a[k] < b[k]
    ELSE ULtFrom(a, b, k - 1)

ULt64(a, b) == ULtFrom(a, b, NumLimbs)

\* a < b as signed 64-bit values.
Lt64(a, b) ==
    IF IsNeg64(a) # IsNeg64(b) THEN IsNeg64(a) ELSE ULt64(a, b)

\* a > 0 as a signed 64-bit value.
Gt0(a) == ~IsNeg64(a) /\ a # Zero64

\* Unsigned a / d and a % d for a small divisor d (long division).
UDivRem(a, d) ==
    LET r[k \in 1..(NumLimbs + 1)] ==
            IF k = NumLimbs + 1 THEN 0 ELSE (r[k + 1] * Base + a[k]) % d
    IN  [quot |-> [k \in LimbIdx |-> (r[k + 1] * Base + a[k]) \div d],
         rem  |-> r[1]]

UDiv64(a, d) == UDivRem(a, d).quot

UMod64(a, d) == UDivRem(a, d).rem

(***************************************************************************)
(* time.Duration formatting, as fmt's %s renders the excess                *)
(***************************************************************************)
\* time.Microsecond, a Duration counted in nanoseconds.
Microsecond == 1000

Millisecond == 1000 * Microsecond

Second == 1000 * Millisecond

DigitChars == <<"0", "1", "2", "3", "4", "5", "6", "7", "8", "9">>

RECURSIVE fmtDigits(_)
fmtDigits(v) ==
    IF v = Zero64 THEN ""
    ELSE fmtDigits(UDiv64(v, 10)) \o DigitChars[UMod64(v, 10) + 1]

\* fmtInt: the decimal text of the unsigned v.
fmtInt(v) == IF v = Zero64 THEN "0" ELSE fmtDigits(v)

\* One round of fmtFrac's loop: the low digit of st.v goes in front of st.s
\* once a non-zero digit has been seen, and st.v loses it.
fmtFracStep(st) ==
    LET digit == UMod64(st.v, 10)
        p     == st.print \/ digit # 0
    IN  [v     |-> UDiv64(st.v, 10),
         print |-> p,
         s     |-> IF p THEN DigitChars[digit + 1] \o st.s ELSE st.s]

\* n rounds of the loop (each round's state is computed once, then bound).
RECURSIVE fmtFracLoop(_, _)
fmtFracLoop(st, n) ==
    IF n = 0 THEN st
    ELSE CHOOSE r \in {fmtFracLoop(nx, n - 1) : nx \in {fmtFracStep(st)}} : TRUE

\* fmtFrac: v / 10^prec, with the fraction's text (trailing zeros and a bare
\* decimal point omitted).
fmtFrac(v, prec) ==
    LET st == fmtFracLoop([v |-> v, print |-> FALSE, s |-> ""], prec)
    IN  [v |-> st.v, s |-> IF st.print THEN "." \o st.s ELSE st.s]

\* A duration below one second: the unit is ns, µs or ms.
fmtSubSecond(u) ==
    LET sub == IF ULt64(u, I64(Microsecond)) THEN [prec |-> 0, unit |-> "ns"]
               ELSE IF ULt64(u, I64(Millisecond)) THEN [prec |-> 3, unit |-> "µs"]
               ELSE [prec |-> 6, unit |-> "ms"]
    IN  CHOOSE r \in {fmtInt(f.v) \o f.s \o sub.unit : f \in {fmtFrac(u, sub.prec)}} : TRUE

\* A duration of one second or more, f = fmtFrac(u, 9): hours, minutes and
\* seconds, the larger units only when they are not zero.
fmtHMS(f) ==
    LET secs  == f.v
        mins  == UDiv64(secs, 60)
        hours == UDiv64(mins, 60)
        s     == fmtInt(I64(UMod64(secs, 60))) \o f.s \o "s"
        m     == IF mins # Zero64
                 THEN fmtInt(I64(UMod64(mins, 60))) \o "m" \o s ELSE s
    IN  IF hours # Zero64 THEN fmtInt(hours) \o "h" \o m ELSE m

\* Duration.String() of the int64 nanosecond count d.
DurationString(d) ==
    LET neg  == IsNeg64(d)
        u    == IF neg THEN Neg64(d) ELSE d
        text == IF u = Zero64 THEN "0s"
                ELSE IF ULt64(u, I64(Second)) THEN fmtSubSecond(u)
                ELSE CHOOSE r \in {fmtHMS(f) : f \in {fmtFrac(u, 9)}} : TRUE
    IN  IF neg THEN "-" \o text ELSE text

(***************************************************************************)
(* Constants and helpers of time_check.go                                  *)
(***************************************************************************)
\* STA_UNSYNC, 0x0040.
staUnsync == 64

\* int64(time.Microsecond * 100000): a Duration product, a count of nanoseconds.
maxEstErrorUs == Mul64(I64(Microsecond), I64(100000))

\* The check statuses Run returns.
statusOK == "statusOK"

statusFailure == "statusFailure"

statusUnknown == "statusUnknown"

\* x & m on two's complement integers, for a mask m >= 0.
RECURSIVE BitAnd(_, _)
BitAnd(x, m) ==
    IF m = 0 THEN 0
    ELSE (x % 2) * (m % 2) + 2 * BitAnd(x \div 2, m \div 2)

\* Go's nil error, an errno returned by the system call, and errors.Wrap.
nil == [kind |-> "nil"]

Errno(text) == [kind |-> "errno", text |-> text]

\* errors.New(message) in place of errors.Wrap: the cause is dropped.
Wrap_DropCause(e, message) ==
    IF e = nil THEN nil ELSE [kind |-> "errno", text |-> message]

Wrap(e, message) ==
    IF e = nil THEN nil ELSE [kind |-> "wrapped", message |-> message, cause |-> e]

\* Error(): a wrapped error prints its message, then its cause.
RECURSIVE ErrorText(_)
ErrorText(e) ==
    IF e.kind = "wrapped" THEN e.message \o ": " \o ErrorText(e.cause) ELSE e.text

\* errors.Cause: the innermost error of a chain.
RECURSIVE Cause(_)
Cause(e) == IF e.kind = "wrapped" THEN Cause(e.cause) ELSE e

\* syscall.Timex{}: the zeroed buffer (only Esterror and Status are read).
ZeroTimex == [Esterror |-> Zero64, Status |-> 0]

\* diff := int64(tBuf.Esterror) - maxEstErrorUs
Diff(buf) == Sub64(buf.Esterror, maxEstErrorUs)

\* diff > 0
MagnitudeExceeded(buf) == Gt0(Diff(buf))

\* time.Duration(diff) * time.Microsecond
Excess(buf) == Mul64(Diff(buf), I64(Microsecond))

MagnitudePrefix ==
    "Clock is less stable than allowed. Max estimated error exceeded by: "

\* fmt.Sprintf("... exceeded by: %s", d)
MagnitudeMsg(d) == MagnitudePrefix \o DurationString(d)

UnsyncMsg ==
    "Clock is out of sync / in unsync state. Must be synchronized for proper operation."

SyncedMsg == "Clock is synced"

AdjtimexMsg == "unable to make a system call adjtimex"

\* (tBuf.Status & staUnsync) > 0
Unsynced(buf) == BitAnd(buf.Status, staUnsync) > 0

\* Run with the two tests in the other order: the flag test first.
RunResult_FlagFirst(buf, e) ==
    IF e # nil
    THEN [msg |-> "", status |-> statusUnknown, err |-> Wrap(e, AdjtimexMsg)]
    ELSE IF Unsynced(buf)
    THEN [msg |-> UnsyncMsg, status |-> statusFailure, err |-> nil]
    ELSE IF MagnitudeExceeded(buf)
    THEN [msg |-> MagnitudeMsg(Excess(buf)), status |-> statusFailure, err |-> nil]
    ELSE [msg |-> SyncedMsg, status |-> statusOK, err |-> nil]

\* Run returning the failed acquisition as a failure of the check, with the
\* error beside it.
RunResult_ErrAsFailure(buf, e) ==
    IF e # nil
    THEN [msg |-> AdjtimexMsg, status |-> statusFailure, err |-> Wrap(e, AdjtimexMsg)]
    ELSE IF MagnitudeExceeded(buf)
    THEN [msg |-> MagnitudeMsg(Excess(buf)), status |-> statusFailure, err |-> nil]
    ELSE IF Unsynced(buf)
    THEN [msg |-> UnsyncMsg, status |-> statusFailure, err |-> nil]
    ELSE [msg |-> SyncedMsg, status |-> statusOK, err |-> nil]

\* What Run returns once runAdjtimex has returned e and left buf.
RunResult(buf, e) ==
    IF e # nil
    THEN [msg |-> "", status |-> statusUnknown, err |-> Wrap(e, AdjtimexMsg)]
    ELSE IF MagnitudeExceeded(buf)
    THEN [msg |-> MagnitudeMsg(Excess(buf)), status |-> statusFailure, err |-> nil]
    ELSE IF Unsynced(buf)
    THEN [msg |-> UnsyncMsg, status |-> statusFailure, err |-> nil]
    ELSE [msg |-> SyncedMsg, status |-> statusOK, err |-> nil]

(***************************************************************************)
(* Inputs                                                                  *)
(***************************************************************************)
\* The invocations of Run the model follows, over all checks together.
MaxRuns == 3

\* Two TimeCheck instances, each invoked any number of times, also
\* interleaved.
Checks == {"t1", "t2"}

\* The largest diff whose product with 1000 still fits an int64.
MaxExactDiff == UDiv64(MaxInt64, Microsecond)

\* The smallest diff whose product with 1000 wraps past 2^64.
WrapDiff == Add64(UDiv64(MaxUint64, Microsecond), I64(1))

\* Values runAdjtimex may leave in tBuf.Esterror: around zero, around the
\* threshold, around the first product that wraps, and the ends of int64.
EstErrors ==
    { Zero64, I64(-1), I64(200000),
      maxEstErrorUs, Add64(maxEstErrorUs, I64(1)),
      Add64(maxEstErrorUs, MaxExactDiff),
      Add64(maxEstErrorUs, Add64(MaxExactDiff, I64(1))),
      Add64(maxEstErrorUs, WrapDiff),
      MaxInt64, MinInt64,
      Sub64(Add64(MinInt64, maxEstErrorUs), I64(1)) }

\* Values runAdjtimex may leave in tBuf.Status (an int32): nothing set,
\* STA_UNSYNC alone, STA_PLL|STA_NANO without STA_UNSYNC, all bits set.
Statuses == {0, staUnsync, 8193, -1}

\* Errors runAdjtimex may return: EPERM, EFAULT.
SyscallErrors == {Errno("operation not permitted"), Errno("bad address")}

\* What a failed call may leave in the buffer: nothing (the kernel's adjtimex
\* writes nothing back on failure), or contents that would pass or fail
\* either test had the call succeeded.
FailedBufs ==
    { ZeroTimex,
      [Esterror |-> I64(200000), Status |-> staUnsync],
      [Esterror |-> MaxInt64, Status |-> -1],
      [Esterror |-> MinInt64, Status |-> 8193] }

\* What a call of runAdjtimex may do: fill the buffer and return nil, or
\* return an error.
Returns ==
    [buf : [Esterror : EstErrors, Status : Statuses], err : {nil}]
        \cup [buf : FailedBufs, err : SyscallErrors]

NoResult == [msg |-> "", status |-> "none", err |-> nil]

(***************************************************************************)
(* State                                                                   *)
(***************************************************************************)
VARIABLES
    pc,      \* pc[t]: where the invocation of Run on check t stands
    tBuf,    \* tBuf[t]: the invocation's local syscall.Timex
    err,     \* err[t]: what runAdjtimex returned
    excess,  \* excess[t]: the Duration handed to Sprintf, if any
    ret,     \* ret[t]: the (message, status, error) returned
    calls,   \* calls[t]: calls of runAdjtimex made by the invocation
    runs     \* invocations started so far

vars == <<pc, tBuf, err, excess, ret, calls, runs>>

\* One buffer shared by all invocations, as a package-level tBuf would be.
Buf_Shared(t) == tBuf["t1"]

\* The buffer an invocation reads: its own local tBuf.
Buf(t) == tBuf[t]

\* A failed call is made again.
AfterCall_Retry(e) == IF e # nil THEN "adjtimex" ELSE "check"

\* After runAdjtimex returns, control goes on to the err test.
AfterCall(e) == "check"

Init ==
    /\ pc = [t \in Checks |-> "idle"]
    /\ tBuf = [t \in Checks |-> ZeroTimex]
    /\ err = [t \in Checks |-> nil]
    /\ excess = [t \in Checks |-> Zero64]
    /\ ret = [t \in Checks |-> NoResult]
    /\ calls = [t \in Checks |-> 0]
    /\ runs = 0

\* Run is entered: tBuf := syscall.Timex{}.
Run_Enter(t) ==
    /\ pc[t] \in {"idle", "done"}
    /\ runs < MaxRuns
    /\ runs' = runs + 1
    /\ pc' = [pc EXCEPT ![t] = "adjtimex"]
    /\ tBuf' = [tBuf EXCEPT ![t] = ZeroTimex]
    /\ err' = [err EXCEPT ![t] = nil]
    /\ excess' = [excess EXCEPT ![t] = Zero64]
    /\ ret' = [ret EXCEPT ![t] = NoResult]
    /\ calls' = [calls EXCEPT ![t] = 0]

\* _, err := t.runAdjtimex(&tBuf): the injected function fills the buffer
\* and returns nil or an error.
Run_Adjtimex(t) ==
    /\ pc[t] = "adjtimex"
    /\ \E r \in Returns :
          /\ tBuf' = [tBuf EXCEPT ![t] = r.buf]
          /\ err' = [err EXCEPT ![t] = r.err]
          /\ pc' = [pc EXCEPT ![t] = AfterCall(r.err)]
    /\ calls' = [calls EXCEPT ![t] = @ + 1]
    /\ UNCHANGED <<excess, ret, runs>>

\* The rest of Run: the err test, the magnitude test, the flag test, return.
Run_Return(t) ==
    /\ pc[t] = "check"
    /\ ret' = [ret EXCEPT ![t] = RunResult(Buf(t), err[t])]
    /\ excess' = [excess EXCEPT ![t] =
                     IF err[t] = nil /\ MagnitudeExceeded(Buf(t))
                     THEN Excess(Buf(t)) ELSE Zero64]
    /\ pc' = [pc EXCEPT ![t] = "done"]
    /\ UNCHANGED <<tBuf, err, calls, runs>>

Next == \E t \in Checks : Run_Enter(t) \/ Run_Adjtimex(t) \/ Run_Return(t)

Spec == Init /\ [][Next]_vars

(***************************************************************************)
(* Properties                                                              *)
(***************************************************************************)
\* The invocation on t has returned.
Done(t) == pc[t] = "done"

\* The invocation on t has returned and its acquisition succeeded.
DoneOK(t) == Done(t) /\ err[t] = nil

\* tBuf[t].Esterror > maxEstErrorUs, as signed 64-bit values.
AboveMax(t) == Lt64(maxEstErrorUs, tBuf[t].Esterror)

HasPrefix(s, p) == Len(s) >= Len(p) /\ SubSeq(s, 1, Len(p)) = p

\* ret[t] is the magnitude failure.
IsMagnitudeFailure(t) ==
    /\ ret[t].status = statusFailure
    /\ HasPrefix(ret[t].msg, MagnitudePrefix)

UnsyncFailure == [msg |-> UnsyncMsg, status |-> statusFailure, err |-> nil]

Synced == [msg |-> SyncedMsg, status |-> statusOK, err |-> nil]

\* C1: after a successful acquisition with an estimated error above
\* maxEstErrorUs, Run returns Failure, a nil error and the magnitude message
\* (the text "less stable than allowed" followed by the excess), also when the
\* unsync bit is set; it never returns the unsync message.
C1_MagnitudeFirst ==
    \A t \in Checks :
        DoneOK(t) /\ AboveMax(t) =>
            /\ IsMagnitudeFailure(t)
            /\ ret[t].err = nil
            /\ ret[t].msg = MagnitudePrefix \o DurationString(excess[t])
            /\ ret[t].msg # UnsyncMsg

C1_Witness ==
    \E t \in Checks :
        DoneOK(t) /\ AboveMax(t) /\ Unsynced(tBuf[t]) /\ IsMagnitudeFailure(t)

\* C2: the threshold is 100 ms: a successful acquisition with an estimated
\* error of 200000 us and no status flag makes Run return Failure with the
\* magnitude message reporting an excess of 100ms.
C2_Threshold100ms ==
    \A t \in Checks :
        DoneOK(t) /\ tBuf[t] = [Esterror |-> I64(200000), Status |-> 0] =>
            ret[t] = [msg |-> MagnitudePrefix \o "100ms",
                      status |-> statusFailure, err |-> nil]

\* C3: when the acquisition fails, Run returns the empty message, Unknown
\* and an error that keeps the cause and puts the adjtimex label in front of
\* its text, whatever the buffer holds.
C3_AcquisitionError ==
    \A t \in Checks :
        Done(t) /\ err[t] # nil =>
            /\ ret[t].msg = ""
            /\ ret[t].status = statusUnknown
            /\ ret[t].err # nil
            /\ Cause(ret[t].err) = err[t]
            /\ ErrorText(ret[t].err) = AdjtimexMsg \o ": " \o ErrorText(err[t])

C3_Witness ==
    \E t \in Checks :
        /\ Done(t) /\ err[t] # nil
        /\ AboveMax(t) /\ Unsynced(tBuf[t])
        /\ ret[t].status = statusUnknown

\* C4: after a successful acquisition with an estimated error at most
\* maxEstErrorUs and the unsync bit clear, Run returns
\* ("Clock is synced", OK, nil).
C4_Synced ==
    \A t \in Checks :
        DoneOK(t) /\ ~AboveMax(t) /\ ~Unsynced(tBuf[t]) => ret[t] = Synced

\* C5: after a successful acquisition with an estimated error at most
\* maxEstErrorUs and the unsync bit set, Run returns Failure with the fixed
\* unsync message and a nil error.
C5_Unsync ==
    \A t \in Checks :
        DoneOK(t) /\ ~AboveMax(t) /\ Unsynced(tBuf[t]) => ret[t] = UnsyncFailure

\* C6: a negative estimated error never yields the magnitude failure: the
\* flag test alone decides the result.
C6_NegativeFallsThrough ==
    \A t \in Checks :
        DoneOK(t) /\ IsNeg64(tBuf[t].Esterror) =>
            /\ ~IsMagnitudeFailure(t)
            /\ ret[t] = IF Unsynced(tBuf[t]) THEN UnsyncFailure ELSE Synced

\* C7: a returned invocation has one status of OK, Failure, Unknown; its
\* error is non-nil exactly when the status is Unknown; OK and Failure carry
\* a non-empty message, Unknown the empty one; an invocation that has not
\* returned has no result.
C7_OneVerdict ==
    \A t \in Checks :
        /\ Done(t) =>
              /\ ret[t].status \in {statusOK, statusFailure, statusUnknown}
              /\ (ret[t].err # nil) <=> (ret[t].status = statusUnknown)
              /\ ret[t].status \in {statusOK, statusFailure} => ret[t].msg # ""
              /\ ret[t].status = statusUnknown => ret[t].msg = ""
        /\ ~Done(t) => ret[t] = NoResult

C7_Witness ==
    \E t, u \in Checks :
        /\ Done(t) /\ ret[t].status = statusUnknown
        /\ Done(u) /\ ret[u].status = statusFailure

\* C8: an invocation calls runAdjtimex exactly once, before its result is
\* determined, and never again, also when the call fails.
C8_OneCall ==
    \A t \in Checks :
        /\ calls[t] <= 1
        /\ pc[t] \in {"check", "done"} => calls[t] = 1
        /\ pc[t] \in {"idle", "adjtimex"} => calls[t] = 0
        /\ ret[t] # NoResult => calls[t] = 1

C8_Witness ==
    \E t \in Checks : Done(t) /\ err[t] # nil /\ calls[t] = 1

\* C9: the result of an invocation depends only on what its own acquisition
\* returned: two returned invocations whose acquisitions returned the same
\* buffer and error have the same result, whatever ran before or beside them.
C9_Stateless ==
    \A t, u \in Checks :
        Done(t) /\ Done(u) /\ tBuf[t] = tBuf[u] /\ err[t] = err[u] =>
            ret[t] = ret[u]

C9_Witness ==
    /\ runs = MaxRuns
    /\ Done("t1") /\ Done("t2")
    /\ tBuf["t1"] = tBuf["t2"] /\ err["t1"] = err["t2"]
    /\ err["t1"] = nil /\ AboveMax("t1")

\* C10: whenever Run returns the magnitude failure, the excess it reports is
\* positive and is exactly (Esterror - maxEstErrorUs) microseconds: the
\* reported nanosecond count is 1000 times the difference, with nothing lost
\* in 64 bits.  Stated for estimated errors above the threshold, where the
\* difference itself is exact and only the conversion is in question.
C10_ExactExcess ==
    \A t \in Checks :
        DoneOK(t) /\ AboveMax(t) /\ IsMagnitudeFailure(t) =>
            /\ Gt0(excess[t])
            /\ UMod64(excess[t], Microsecond) = 0
            /\ UDiv64(excess[t], Microsecond) = Sub64(tBuf[t].Esterror, maxEstErrorUs)

=============================================================================
